---------------------------- MODULE Spec2Model ----------------------------
(***************************************************************************)
(* setuptools_configure: the @-variable substitution engine, the configure *)
(* cache reader and writer, the command line override parser and the       *)
(* setup() driver of src/setuptools_configure/__init__.py.                 *)
(*                                                                         *)
(* Text is modelled as a sequence of one-character strings, so that the    *)
(* regular expressions of the module are modelled by what they match.      *)
(***************************************************************************)
EXTENDS Integers, Sequences, FiniteSets, TLC

VARIABLES
    args,              \* parse_commandline_substitutions: the argument list
    script_args,       \* parse_commandline_substitutions: pass-through result
    cli_substitutions, \* parse_commandline_substitutions: override table
    ovpc,              \* "idle" | "call" | "done" | "ValueError"
    substitutions0,    \* flatten: the table as handed to flatten()
    closures0,         \* the deferred computations as constructed
    order,             \* flatten: the order in which items() yields the keys
    substitutions,     \* the table, mutated in place
    closures,          \* the deferred computations' captured args (nonlocal)
    calls,             \* how often each deferred computation was called
    pos,               \* flatten: number of entries visited so far
    result,            \* value returned by the last substitute() call
    error,             \* exception that ended the operation, if any
    subpc,             \* "idle" | "ready" | "flatten" | "flattened" |
                       \* "flatten_raised" | "substituted" | "substitute_raised"
    cache_table,       \* write_cache: the table handed to it
    cache_file,        \* config.cache: [exists, text]
    parsed,            \* parse_cache: the table it returned
    cachepc,           \* "idle" | "ready" | "written" | "parsed" | "parse_raised"
    attrs,             \* setup(): the substitutions and description given
    events,            \* setup: the operations performed so far, in order
    config_state,      \* "NotConfigured" | "Configuring" | "Configured"
    setuppc,           \* setup: the statement it is at
    constants_module,  \* the constants_module= name given to setup()
    package_dir,       \* distribution.package_dir
    package,           \* configure.run: the package part of constants_module
    prefix,            \* prefixes(): its local variable prefix
    gen,               \* prefixes(): where the generator is suspended
    directory,         \* configure.run: the directory found, or None
    yields,            \* number of prefixes the generator has yielded
    cmpc               \* "idle" | "validate" | "run" | "for" | "after_for" |
                       \* "done" | "DistutilsSetupError"

ovVars == <<args, script_args, cli_substitutions, ovpc>>
subVars == <<substitutions0, closures0, order, substitutions, closures, calls,
             pos, result, error, subpc>>
cacheVars == <<cache_table, cache_file, parsed, cachepc>>
setupVars == <<attrs, events, config_state, setuppc>>
cmVars == <<constants_module, package_dir, package, prefix, gen, directory,
            yields, cmpc>>
vars == <<ovVars, subVars, cacheVars, setupVars, cmVars>>

-----------------------------------------------------------------------------
(* Characters *)

\* identifier_pattern, first character class [A-Za-z_]
IdStartChars == {"A", "B", "C", "E", "F", "G", "H", "I", "K", "L", "M", "N", "O",
                 "P", "R", "S", "T", "U", "V", "a", "b", "c", "d", "e", "f", "g",
                 "i", "l", "m", "n", "o", "p", "q", "r", "s", "t", "u", "x",
                 "y", "_"}
\* identifier_pattern, following character class [A-Za-z0-9_]
IdChars == IdStartChars \cup {"0", "1"}
\* the characters \s of config_pattern and str.strip() remove
Whitespace == {" ", "\n", "\t", "\r"}

delimiter == "@"

-----------------------------------------------------------------------------
(* Generic sequence helpers *)

\* Python's seq[i:] with a 0-based index
PyFrom(seq, i) == SubSeq(seq, i + 1, Len(seq))
\* Python's seq[:i] with a 0-based index
PyUpTo(seq, i) == SubSeq(seq, 1, i)

\* all sequences over S of length at most n
SeqsUpTo(S, n) == UNION {[1..k -> S] : k \in 0..n}

\* dict[key] = value
DictSet(d, key, value) ==
    [k \in DOMAIN d \cup {key} |-> IF k = key THEN value ELSE d[k]]
\* dict.update(other)
DictUpdate(d, other) ==
    [k \in DOMAIN d \cup DOMAIN other |-> IF k \in DOMAIN other THEN other[k] ELSE d[k]]
EmptyDict == <<>>

-----------------------------------------------------------------------------
(* identifier_pattern and config_pattern *)

\* length of the longest prefix of s matched by identifier_pattern (0: none)
RECURSIVE IdRun(_, _)
IdRun(s, n) ==
    IF n < Len(s) /\ s[n + 1] \in (IF n = 0 THEN IdStartChars ELSE IdChars)
    THEN IdRun(s, n + 1)
    ELSE n

\* number of leading whitespace characters of s from 0-based offset n
RECURSIVE WsRun(_, _)
WsRun(s, n) ==
    IF n < Len(s) /\ s[n + 1] \in Whitespace THEN WsRun(s, n + 1) ELSE n

\* config_pattern.fullmatch(s): name \s* = \s* value, where . excludes "\n"
ConfigMatch(s) ==
    LET k  == IdRun(s, 0)
        e  == WsRun(s, k)
        v  == IF e < Len(s) THEN WsRun(s, e + 1) ELSE e
        value == PyFrom(s, v)
    IN IF k > 0 /\ e < Len(s) /\ s[e + 1] = "="
          /\ \A i \in 1..Len(value) : value[i] # "\n"
       THEN [ok |-> TRUE, name |-> PyUpTo(s, k), value |-> value]
       ELSE [ok |-> FALSE, name |-> <<>>, value |-> <<>>]

-----------------------------------------------------------------------------
(* parse_commandline_substitutions *)

TokConfigure == <<"c", "o", "n", "f", "i", "g", "u", "r", "e">>
TokSetupPy   == <<"s", "e", "t", "u", "p", ".", "p", "y">>
TokFooBar    == <<"F", "O", "O", "=", "b", "a", "r">>
TokQuiet     == <<"-", "-", "q", "u", "i", "e", "t">>
TokBuild     == <<"b", "u", "i", "l", "d">>
TokFlagEq    == <<"-", "D", "=", "1">>
ArgTokens == {TokConfigure, TokSetupPy, TokFooBar, TokQuiet, TokBuild, TokFlagEq}

MaxArgs == 5

\* args.index('configure'), 0-based; -1 stands for the ValueError
ArgsIndex(a) ==
    IF \E i \in 1..Len(a) : a[i] = TokConfigure
    THEN (CHOOSE i \in 1..Len(a) :
              a[i] = TokConfigure /\ \A j \in 1..(i - 1) : a[j] # TokConfigure) - 1
    ELSE -1

\* arg.startswith('-')
StartsWithDash(arg) == Len(arg) > 0 /\ arg[1] = "-"

\* the for loop of parse_commandline_substitutions over args[start:]; index
\* is the 0-based enumerate() index, and the loop ends with args[index:]
RECURSIVE ScanArgs(_, _, _, _, _)
ScanArgs(a, start, index, sa, subs) ==
    IF start + index >= Len(a)
    THEN [script_args |-> sa, substitutions |-> subs]
    ELSE LET arg == a[start + index + 1]
             m   == ConfigMatch(arg)
         IN IF m.ok
            THEN ScanArgs(a, start, index + 1, sa, DictSet(subs, m.name, m.value))
            ELSE IF ~StartsWithDash(arg)
                 THEN [script_args |-> sa \o PyFrom(a, index),
                       substitutions |-> subs]
                 ELSE ScanArgs(a, start, index + 1, Append(sa, arg), subs)

parse_commandline_substitutions(a) ==
    LET start == ArgsIndex(a) + 1
    IN ScanArgs(a, start, 0, PyUpTo(a, start), EmptyDict)

-----------------------------------------------------------------------------
(* Values, deferred computations and exceptions of the substitution engine *)

\* a str value
Str(s) == [kind |-> "str", s |-> s, id |-> <<>>]
\* the wrapper function execute_process(args) returns; id names its closure
Callable(id) == [kind |-> "callable", s |-> <<>>, id |-> id]

NoError == [kind |-> "none", chain |-> <<>>]
\* SubstitutionError("Can't expand unknown variable {name}")
UnknownVariable(name) == [kind |-> "unknown", chain |-> <<name>>]
\* SubstitutionError("Cycle detected: " + '->'.join(referenced))
CycleDetected(referenced) == [kind |-> "cycle", chain |-> referenced]
\* ConfigureError raised by do_execute_process on a non-zero exit status
ProcessFailed == [kind |-> "ConfigureError", chain |-> <<>>]
\* the interpreter's RecursionError: the call stack is exhausted
RecursionError == [kind |-> "RecursionError", chain |-> <<>>]

\* number of nested deferred calls after which the interpreter gives up
MaxDepth == 2

Returns(st, val) == [st |-> st, val |-> val, err |-> NoError]
Raises(st, err) == [st |-> st, val |-> Str(<<>>), err |-> err]

\* name in referenced
InChain(name, referenced) == \E i \in 1..Len(referenced) : referenced[i] = name

\* delimiter in value
HasDelimiter(s) == \E i \in 1..Len(s) : s[i] = delimiter

\* substitution_pattern matched at 0-based offset i of s:
\* "escaped" (@@), "named" (@identifier@, with name and the match's end) or
\* "none"; the escaped alternative is tried first
MatchAt(s, i) ==
    IF i >= Len(s) \/ s[i + 1] # delimiter
    THEN [kind |-> "none", name |-> <<>>, end |-> i]
    ELSE IF i + 1 < Len(s) /\ s[i + 2] = delimiter
         THEN [kind |-> "escaped", name |-> <<>>, end |-> i + 2]
         ELSE LET k == IdRun(PyFrom(s, i + 1), 0)
              IN IF k > 0 /\ i + 1 + k < Len(s) /\ s[i + 1 + k + 1] = delimiter
                 THEN [kind |-> "named", name |-> SubSeq(s, i + 2, i + 1 + k),
                       end |-> i + k + 2]
                 ELSE [kind |-> "none", name |-> <<>>, end |-> i]

RECURSIVE _expand(_, _, _)
RECURSIVE _replace(_, _, _)
RECURSIVE _substitute(_, _, _)
RECURSIVE PatternSub(_, _, _, _)
RECURSIVE substitute_list(_, _, _)
RECURSIVE execute_process_wrapper(_, _)

\* _expand(substitutions, name, referenced); st holds the table it mutates
_expand(st, name, referenced) ==
    IF name \notin DOMAIN st.tbl
    THEN Raises(st, UnknownVariable(name))
    ELSE LET r == _substitute(st.tbl[name], st, referenced)
         IN IF r.err.kind # "none"
            THEN r
            ELSE Returns([r.st EXCEPT !.tbl[name] = r.val], r.val)

\* a _replace that reports the chain as it stood, without the name that
\* closes the cycle
ReplaceReportingOpenChain(st, referenced, match) ==
    IF match.kind = "named"
    THEN IF InChain(match.name, referenced)
         THEN Raises(st, CycleDetected(referenced))
         ELSE _expand(st, match.name, Append(referenced, match.name))
    ELSE Returns(st, Str(<<delimiter>>))

\* _replace(substitutions, referenced, match) for a match of the given kind
_replace(st, referenced, match) ==
    IF match.kind = "named"
    THEN IF InChain(match.name, referenced)
         THEN Raises(st, CycleDetected(Append(referenced, match.name)))
         ELSE _expand(st, match.name, Append(referenced, match.name))
    ELSE Returns(st, Str(<<delimiter>>))

\* substitution_pattern.sub(partial(_replace, substitutions, referenced), s)
\* from 0-based offset i: the matches are replaced left to right, the
\* replacement text is not scanned again
PatternSub(s, i, st, referenced) ==
    IF i >= Len(s)
    THEN Returns(st, Str(<<>>))
    ELSE LET m == MatchAt(s, i)
         IN IF m.kind = "none"
            THEN LET rest == PatternSub(s, i + 1, st, referenced)
                 IN IF rest.err.kind # "none"
                    THEN rest
                    ELSE Returns(rest.st, Str(<<s[i + 1]>> \o rest.val.s))
            ELSE LET r == _replace(st, referenced, m)
                 IN IF r.err.kind # "none"
                    THEN r
                    ELSE LET rest == PatternSub(s, m.end, r.st, referenced)
                         IN IF rest.err.kind # "none"
                            THEN rest
                            ELSE Returns(rest.st, Str(r.val.s \o rest.val.s))

\* _substitute(value, substitutions, referenced)
_substitute(value, st, referenced) ==
    IF value.kind = "callable"
    THEN execute_process_wrapper(value.id, st)
    ELSE IF ~HasDelimiter(value.s)
         THEN Returns(st, value)
         ELSE PatternSub(value.s, 0, st, referenced)

\* substitute(value, substitutions) for a str or a callable
substitute(value, st) == _substitute(value, st, <<>>)

\* substitute(value, substitutions) for a list of str, from element i on:
\* type(value)(substitute(v, substitutions) for v in value); val is the list
substitute_list(list, i, st) ==
    IF i > Len(list)
    THEN [st |-> st, val |-> <<>>, err |-> NoError]
    ELSE LET r == substitute(Str(list[i]), st)
         IN IF r.err.kind # "none"
            THEN [st |-> r.st, val |-> <<>>, err |-> r.err]
            ELSE LET rest == substitute_list(list, i + 1, r.st)
                 IN IF rest.err.kind # "none"
                    THEN rest
                    ELSE [st |-> rest.st, val |-> <<r.val.s>> \o rest.val,
                          err |-> NoError]

\* execute_process_wrapper(substitutions) of the closure id, followed by
\* do_execute_process(args), whose outcome is the closure's out
execute_process_wrapper(id, st) ==
    IF st.depth >= MaxDepth
    THEN Raises([st EXCEPT !.calls[id] = @ + 1], RecursionError)
    ELSE LET entered == [st EXCEPT !.calls[id] = @ + 1, !.depth = @ + 1]
             a == substitute_list(st.clo[id].args, 1, entered)
         IN IF a.err.kind # "none"
            THEN Raises(a.st, a.err)
            ELSE LET left == [a.st EXCEPT !.clo[id].args = a.val, !.depth = @ - 1]
                 IN IF left.clo[id].out.ok
                    THEN Returns(left, Str(left.clo[id].out.s))
                    ELSE Raises(left, ProcessFailed)

\* an iteration of flatten's loop that drops the result instead of storing it
FlattenStepWithoutStore(st, key) ==
    LET r == substitute(st.tbl[key], st)
    IN IF r.err.kind # "none" THEN r ELSE Returns(r.st, r.val)

\* one iteration of flatten's loop: substitutions[key] = substitute(value, ...)
flatten_step(st, key) ==
    LET r == substitute(st.tbl[key], st)
    IN IF r.err.kind # "none"
       THEN r
       ELSE Returns([r.st EXCEPT !.tbl[key] = r.val], r.val)

\* flatten(substitutions) visiting the keys in the order ord, from entry i on
RECURSIVE flatten(_, _, _)
flatten(st, ord, i) ==
    IF i > Len(ord)
    THEN Returns(st, Str(<<>>))
    ELSE LET r == flatten_step(st, ord[i])
         IN IF r.err.kind # "none" THEN r ELSE flatten(r.st, ord, i + 1)

-----------------------------------------------------------------------------
(* The tables flatten() and substitute() are run on *)

NameA == <<"A">>
NameB == <<"B">>
Names == {NameA, NameB}

\* building blocks of the Text values: a stray delimiter, the escape, a
\* literal character and references to A, B and the unknown name C
Pieces == {<<"@">>, <<"@", "@">>, <<"x">>,
           <<"@", "A", "@">>, <<"@", "B", "@">>, <<"@", "C", "@">>}
MaxParts == 2

RECURSIVE Join(_)
Join(ps) == IF ps = <<>> THEN <<>> ELSE Head(ps) \o Join(Tail(ps))

TextValues == {Join(ps) : ps \in SeqsUpTo(Pieces, MaxParts)}

\* the args lists handed to execute_process()
ClosureArgs == {<< <<"x">> >>, << <<"@", "A", "@">> >>,
                << <<"x">>, <<"@", "B", "@">> >>}
\* what the executed process prints (after strip()), or its failure
ProcessOutcomes == {[ok |-> TRUE, s |-> <<"x">>], [ok |-> TRUE, s |-> <<"@", "@">>],
                    [ok |-> TRUE, s |-> <<"@", "B", "@">>], [ok |-> FALSE, s |-> <<>>]}
NoClosure == [args |-> <<>>, out |-> [ok |-> FALSE, s |-> <<>>]]

TableEntries ==
    {[callable |-> FALSE, text |-> t, clo |-> NoClosure] : t \in TextValues}
    \cup {[callable |-> TRUE, text |-> <<>>, clo |-> [args |-> a, out |-> o]] :
              a \in ClosureArgs, o \in ProcessOutcomes}

Permutations2(S) == {p \in [1..Cardinality(S) -> S] : \A x \in S : \E i \in DOMAIN p : p[i] = x}

\* the engine's state as one record, as the operators above thread it
EngineState == [tbl |-> substitutions, clo |-> closures, calls |-> calls, depth |-> 0]

-----------------------------------------------------------------------------
(* The cache file: write_cache, TextFile.readline and parse_cache *)

\* the characters that occur in keys, in code point order, for sorted()
CharOrder == <<"0", "1", "A", "B", "C", "E", "G", "H", "I", "K", "L", "M", "N",
               "O", "P", "R", "S", "T", "U", "V", "_", "a", "x">>
CodePoint == [c \in {CharOrder[i] : i \in DOMAIN CharOrder} |->
                 CHOOSE i \in DOMAIN CharOrder : CharOrder[i] = c]

\* s < t for two str
RECURSIVE StrLess(_, _)
StrLess(s, t) ==
    IF t = <<>> THEN FALSE
    ELSE IF s = <<>> THEN TRUE
    ELSE IF s[1] # t[1] THEN CodePoint[s[1]] < CodePoint[t[1]]
    ELSE StrLess(Tail(s), Tail(t))

\* the keys of sorted(substitutions.items())
RECURSIVE SortedKeys(_)
SortedKeys(S) ==
    IF S = {} THEN <<>>
    ELSE LET m == CHOOSE x \in S : \A y \in S \ {x} : StrLess(x, y)
         IN <<m>> \o SortedKeys(S \ {m})

\* "{}={}\n".format(name, value)
CacheLine(name, value) == name \o <<"=">> \o value \o <<"\n">>

\* the text write_cache(filename, substitutions) writes
RECURSIVE WriteLines(_, _)
WriteLines(tbl, keys) ==
    IF keys = <<>> THEN <<>>
    ELSE CacheLine(Head(keys), tbl[Head(keys)]) \o WriteLines(tbl, Tail(keys))

write_cache(tbl) == WriteLines(tbl, SortedKeys(DOMAIN tbl))

\* reading in text mode: "\r\n" and "\r" are read as "\n"
RECURSIVE UniversalNewlines(_)
UniversalNewlines(text) ==
    IF text = <<>> THEN <<>>
    ELSE IF text[1] = "\r"
         THEN IF Len(text) > 1 /\ text[2] = "\n"
              THEN <<"\n">> \o UniversalNewlines(PyFrom(text, 2))
              ELSE <<"\n">> \o UniversalNewlines(Tail(text))
         ELSE <<text[1]>> \o UniversalNewlines(Tail(text))

\* the physical lines file.readline() returns, each with its "\n"
RECURSIVE PhysicalLines(_, _)
PhysicalLines(text, cur) ==
    IF text = <<>> THEN (IF cur = <<>> THEN <<>> ELSE <<cur>>)
    ELSE IF text[1] = "\n"
         THEN <<Append(cur, "\n")>> \o PhysicalLines(Tail(text), <<>>)
         ELSE PhysicalLines(Tail(text), Append(cur, text[1]))

\* line.find("#"), 0-based, -1 when absent
RECURSIVE FindHash(_, _)
FindHash(line, i) ==
    IF i >= Len(line) THEN -1
    ELSE IF line[i + 1] = "#" THEN i ELSE FindHash(line, i + 1)

\* line.replace("\\#", "#")
RECURSIVE UnescapeHash(_)
UnescapeHash(line) ==
    IF line = <<>> THEN <<>>
    ELSE IF Len(line) > 1 /\ line[1] = "\\" /\ line[2] = "#"
         THEN <<"#">> \o UnescapeHash(PyFrom(line, 2))
         ELSE <<line[1]>> \o UnescapeHash(Tail(line))

\* line.lstrip() and line.strip()
RECURSIVE LStrip(_)
LStrip(line) ==
    IF line # <<>> /\ line[1] \in Whitespace THEN LStrip(Tail(line)) ELSE line
RECURSIVE RStrip(_)
RStrip(line) ==
    IF line # <<>> /\ line[Len(line)] \in Whitespace
    THEN RStrip(PyUpTo(line, Len(line) - 1)) ELSE line
Strip(line) == RStrip(LStrip(line))

\* the strip_comments step of TextFile.readline on one physical line:
\* [skip: the line is dropped, line: what is left of it]
StripComment(line) ==
    LET hash == FindHash(line, 0)
    IN IF hash = -1
       THEN [skip |-> FALSE, line |-> line]
       ELSE IF hash = 0 \/ line[hash] # "\\"
            THEN LET eol  == IF line[Len(line)] = "\n" THEN <<"\n">> ELSE <<>>
                     left == PyUpTo(line, hash) \o eol
                 IN [skip |-> Strip(left) = <<>>, line |-> left]
            ELSE [skip |-> FALSE, line |-> UnescapeHash(line)]

\* TextFile.readline() with strip_comments, lstrip_ws, rstrip_ws, skip_blanks
\* and join_lines set: the logical line (eof: None) and the physical lines
\* left; buildup is buildup_line
RECURSIVE ReadLine(_, _)
ReadLine(lines, buildup) ==
    IF lines = <<>>
    THEN IF buildup # <<>>
         THEN [eof |-> FALSE, line |-> buildup, rest |-> <<>>]
         ELSE [eof |-> TRUE, line |-> <<>>, rest |-> <<>>]
    ELSE LET c == StripComment(Head(lines))
         IN IF c.skip
            THEN ReadLine(Tail(lines), buildup)
            ELSE LET line == Strip(buildup \o c.line)
                 IN IF line = <<>>
                    THEN ReadLine(Tail(lines), buildup)
                    ELSE IF line[Len(line)] = "\\"
                         THEN ReadLine(Tail(lines), PyUpTo(line, Len(line) - 1))
                         ELSE [eof |-> FALSE, line |-> line, rest |-> Tail(lines)]

\* the while loop of parse_cache over the logical lines
RECURSIVE ParseLines(_, _)
ParseLines(lines, subs) ==
    LET r == ReadLine(lines, <<>>)
    IN IF r.eof
       THEN [ok |-> TRUE, substitutions |-> subs]
       ELSE LET m == ConfigMatch(r.line)
            IN IF ~m.ok
               THEN [ok |-> FALSE, substitutions |-> subs]
               ELSE ParseLines(r.rest, DictSet(subs, m.name, m.value))

\* parse_cache(filename): a missing file gives the empty table
parse_cache(file) ==
    IF ~file.exists
    THEN [ok |-> TRUE, substitutions |-> EmptyDict]
    ELSE ParseLines(PhysicalLines(UniversalNewlines(file.text), <<>>), EmptyDict)

\* the tables write_cache is given: keys and Text values
KeyA == <<"A">>
KeyB == <<"B">>
KeyA1 == <<"A", "1">>
CacheKeySets == {{}, {KeyA}, {KeyA1, KeyA}, {KeyA, KeyB}}
ValueChars == {"a", " ", "#", "\\", "\n", "="}
MaxValueLen == 2
CacheValues == SeqsUpTo(ValueChars, MaxValueLen)

NoFile == [exists |-> FALSE, text |-> <<>>]

-----------------------------------------------------------------------------
(* setup() *)

\* a dict with its insertion order: keys in order, and the mapping
DictUpdateOrder(keys, other_keys) ==
    keys \o SelectSeq(other_keys, LAMBDA k : ~InChain(k, keys))

\* the Autoconf-style metadata setup() puts into the table, in its order
MetadataKeys == <<<<"P", "A", "C", "K", "A", "G", "E", "_", "N", "A", "M", "E">>,
                 <<"P", "A", "C", "K", "A", "G", "E", "_", "V", "E", "R", "S", "I", "O", "N">>,
                 <<"P", "A", "C", "K", "A", "G", "E", "_", "A", "U", "T", "H", "O", "R">>,
                 <<"P", "A", "C", "K", "A", "G", "E", "_", "A", "U", "T", "H", "O", "R", "_", "E", "M", "A", "I", "L">>,
                 <<"P", "A", "C", "K", "A", "G", "E", "_", "L", "I", "C", "E", "N", "S", "E">>,
                 <<"P", "A", "C", "K", "A", "G", "E", "_", "U", "R", "L">>>>
\* attrs.get('name'), attrs.get('version'), ...: the metadata of the project
MetadataValue == <<"x">>
Metadata == [k \in {MetadataKeys[i] : i \in DOMAIN MetadataKeys} |-> Str(MetadataValue)]

TokHelp == <<"-", "-", "h", "e", "l", "p">>
TokOverrideB == <<"B", "=", "x">>
SetupTokens == {TokConfigure, TokOverrideB, TokHelp, TokBuild}
MaxSetupArgs == 3

\* known_args.help or known_args.help_commands
HelpRequested(a) ==
    \E i \in 1..Len(a) :
        a[i] \in {TokHelp, <<"-", "h">>,
                  <<"-", "-", "h", "e", "l", "p", "-", "c", "o", "m", "m", "a", "n", "d", "s">>}

\* 'configure' in script_args
HasConfigure(a) == ArgsIndex(a) >= 0

\* the substitutions= tables given to setup()
SetupTables == {EmptyDict,
                (NameA :> Str(<<"x">>)),
                (NameA :> Str(<<"@", "B", "@">>)),
                (NameA :> Str(<<"@", "A", "@">>))}
\* the description= values given to setup()
SetupDescriptions == {<<"@", "A", "@">>, <<"@", "B", "@">>}
\* config.cache as it may lie on disk before setup() runs
SetupCaches == {NoFile,
                [exists |-> TRUE, text |-> <<"B", "=", "a", "\n">>],
                [exists |-> TRUE, text |-> <<"a", "\n">>]}

\* the keys of a table in Python's order of insertion; the given tables hold
\* one key at most
KeysOf(tbl) == IF NameA \in DOMAIN tbl THEN <<NameA>> ELSE <<>>

\* the table as write_cache formats it: "{}".format(value) of a str
Texts(tbl) == [k \in DOMAIN tbl |-> tbl[k].s]
\* the table parse_cache returns, as values of the substitution table
Strs(tbl) == [k \in DOMAIN tbl |-> Str(tbl[k])]

-----------------------------------------------------------------------------
(* The constants module: validate_constants_module, prefixes, configure.run *)

\* value.split('.') from the text cur collected so far
RECURSIVE SplitDots(_, _)
SplitDots(value, cur) ==
    IF value = <<>> THEN <<cur>>
    ELSE IF value[1] = "." THEN <<cur>> \o SplitDots(Tail(value), <<>>)
    ELSE SplitDots(Tail(value), Append(cur, value[1]))

\* str.isidentifier() of an ASCII str
isidentifier(part) == part # <<>> /\ IdRun(part, 0) = Len(part)

\* all(map(str.isidentifier, value.split('.'))): "True" or "False"
AllIdentifiers(value) ==
    LET parts == SplitDots(value, <<>>)
    IN IF \A i \in 1..Len(parts) : isidentifier(parts[i]) THEN "True" ELSE "False"

\* validate_constants_module(dist, attr, value): whether it raises
\* DistutilsSetupError, which it does when all(...) is None
validate_constants_module(value) == AllIdentifiers(value) = "None"

\* the first element of s.rpartition('.')
RECURSIVE RPartitionHead(_)
RPartitionHead(s) ==
    IF s = <<>> THEN <<>>
    ELSE IF s[Len(s)] = "." THEN PyUpTo(s, Len(s) - 1)
    ELSE RPartitionHead(PyUpTo(s, Len(s) - 1))

None == [none |-> TRUE, path |-> <<>>]
Some(path) == [none |-> FALSE, path |-> path]
\* package_dir.get(key)
DictGet(d, key) == IF key \in DOMAIN d THEN Some(d[key]) ELSE None

\* os.curdir
curdir == <<".">>

ModuleChars == {"a", "1", ".", "-"}
MaxModuleLen == 5
\* the packages package_dir may name, and the directory it gives each
PackageDirKeys == {<<>>, <<"a">>, <<"a", ".", "a">>}
DirectoryOf(key) == <<"/">> \o key
\* number of prefixes the for loop may ask for before the model stops
MaxYields == 5

OvIdle ==
    /\ args = <<>> /\ script_args = <<>> /\ cli_substitutions = <<>> /\ ovpc = "idle"

CacheIdle ==
    /\ cache_table = <<>> /\ cache_file = <<>> /\ parsed = <<>> /\ cachepc = "idle"

SetupIdle ==
    /\ attrs = <<>> /\ events = <<>> /\ config_state = "idle" /\ setuppc = "idle"

CmIdle ==
    /\ constants_module = <<>> /\ package_dir = <<>> /\ package = <<>>
    /\ prefix = <<>> /\ gen = "none" /\ directory = <<>> /\ yields = 0
    /\ cmpc = "idle"

SubIdle ==
    /\ substitutions0 = <<>> /\ closures0 = <<>> /\ order = <<>>
    /\ substitutions = <<>> /\ closures = <<>> /\ calls = <<>>
    /\ pos = 0 /\ result = <<>> /\ error = <<>> /\ subpc = "idle"

OvInit ==
    /\ CmIdle /\ SubIdle /\ CacheIdle /\ SetupIdle
    /\ args \in SeqsUpTo(ArgTokens, MaxArgs)
    /\ script_args = <<>>
    /\ cli_substitutions = EmptyDict
    /\ ovpc = "call"

ParseCommandline ==
    /\ ovpc = "call"
    /\ ArgsIndex(args) >= 0
    /\ LET r == parse_commandline_substitutions(args)
       IN /\ script_args' = r.script_args
          /\ cli_substitutions' = r.substitutions
    /\ ovpc' = "done"
    /\ UNCHANGED <<args, subVars, cacheVars, setupVars, cmVars>>

ParseCommandlineNoMarker ==
    /\ ovpc = "call"
    /\ ArgsIndex(args) < 0
    /\ ovpc' = "ValueError"
    /\ UNCHANGED <<args, script_args, cli_substitutions, subVars, cacheVars, setupVars, cmVars>>

OvNext == ParseCommandline \/ ParseCommandlineNoMarker

SpecOverride == OvInit /\ [][OvNext]_vars

SubInit ==
    /\ CmIdle /\ OvIdle /\ CacheIdle /\ SetupIdle
    /\ \E e \in [Names -> TableEntries] :
          /\ substitutions0 = [n \in Names |->
                 IF e[n].callable THEN Callable(n) ELSE Str(e[n].text)]
          /\ closures0 = [n \in Names |-> e[n].clo]
    /\ order \in Permutations2(Names)
    /\ substitutions = substitutions0
    /\ closures = closures0
    /\ calls = [n \in Names |-> 0]
    /\ pos = 0
    /\ result = [name |-> <<>>, val |-> Str(<<>>)]
    /\ error = NoError
    /\ subpc = "ready"

\* one iteration of the loop of flatten(substitutions)
FlattenStep ==
    /\ subpc \in {"ready", "flatten"}
    /\ pos < Len(order)
    /\ LET r == flatten_step(EngineState, order[pos + 1])
       IN /\ substitutions' = r.st.tbl
          /\ closures' = r.st.clo
          /\ calls' = r.st.calls
          /\ error' = r.err
          /\ result' = [name |-> order[pos + 1], val |-> r.val]
          /\ IF r.err.kind # "none"
             THEN pos' = pos /\ subpc' = "flatten_raised"
             ELSE /\ pos' = pos + 1
                  /\ subpc' = IF pos + 1 = Len(order) THEN "flattened" ELSE "flatten"
    /\ UNCHANGED <<substitutions0, closures0, order, ovVars, cacheVars, setupVars, cmVars>>

\* substitute(substitutions[name], substitutions), called on its own
SubstituteEntry(name) ==
    /\ subpc = "ready"
    /\ LET r == substitute(substitutions[name], EngineState)
       IN /\ substitutions' = r.st.tbl
          /\ closures' = r.st.clo
          /\ calls' = r.st.calls
          /\ error' = r.err
          /\ result' = [name |-> name, val |-> r.val]
          /\ subpc' = IF r.err.kind # "none" THEN "substitute_raised" ELSE "substituted"
    /\ UNCHANGED <<substitutions0, closures0, order, pos, ovVars, cacheVars, setupVars, cmVars>>

SubNext == FlattenStep \/ \E name \in Names : SubstituteEntry(name)

SpecSubst == SubInit /\ [][SubNext]_vars

CacheInit ==
    /\ CmIdle /\ OvIdle /\ SubIdle /\ SetupIdle
    /\ \E D \in CacheKeySets : cache_table \in [D -> CacheValues]
    /\ cache_file = NoFile
    /\ parsed = EmptyDict
    /\ cachepc = "ready"

\* write_cache(filename, substitutions)
WriteCache ==
    /\ cachepc = "ready"
    /\ cache_file' = [exists |-> TRUE, text |-> write_cache(cache_table)]
    /\ cachepc' = "written"
    /\ UNCHANGED <<cache_table, parsed, ovVars, subVars, setupVars, cmVars>>

\* parse_cache(filename)
ParseCache ==
    /\ cachepc = "written"
    /\ LET r == parse_cache(cache_file)
       IN /\ parsed' = r.substitutions
          /\ cachepc' = IF r.ok THEN "parsed" ELSE "parse_raised"
    /\ UNCHANGED <<cache_table, cache_file, ovVars, subVars, setupVars, cmVars>>

CacheNext == WriteCache \/ ParseCache

SpecCache == CacheInit /\ [][CacheNext]_vars

SetupInit ==
    /\ args \in SeqsUpTo(SetupTokens, MaxSetupArgs)
    /\ script_args = args
    /\ cli_substitutions = EmptyDict
    /\ ovpc = "idle"
    /\ attrs \in [substitutions : SetupTables, description : SetupDescriptions]
    /\ substitutions0 = attrs.substitutions
    /\ closures0 = EmptyDict /\ closures = EmptyDict /\ calls = EmptyDict
    /\ substitutions = attrs.substitutions
    /\ order = KeysOf(attrs.substitutions)
    /\ pos = 0
    /\ result = [name |-> <<>>, val |-> Str(<<>>)]
    /\ error = NoError
    /\ subpc = "idle"
    /\ cache_table = EmptyDict /\ parsed = EmptyDict /\ cachepc = "idle"
    /\ cache_file \in SetupCaches
    /\ events = <<>>
    /\ config_state = "NotConfigured"
    /\ setuppc = "parse_known_args"
    /\ CmIdle

\* lines 328-340: the help options are recognized; without them the
\* metadata is put into the table
SetupBegin ==
    /\ setuppc = "parse_known_args"
    /\ IF HelpRequested(args)
       THEN /\ setuppc' = "setuptools"
            /\ UNCHANGED <<substitutions, order>>
       ELSE /\ substitutions' = DictUpdate(substitutions, Metadata)
            /\ order' = DictUpdateOrder(order, MetadataKeys)
            /\ setuppc' = IF HasConfigure(script_args) THEN "overrides" ELSE "load_cache"
    /\ UNCHANGED <<args, script_args, cli_substitutions, ovpc, substitutions0,
                   closures0, closures, calls, pos, result, error, subpc,
                   cacheVars, attrs, events, config_state, cmVars>>

\* lines 343-344: the overrides are read and put into the table
SetupReadOverrides ==
    /\ setuppc = "overrides"
    /\ LET r == parse_commandline_substitutions(script_args)
       IN /\ script_args' = r.script_args
          /\ cli_substitutions' = r.substitutions
          /\ substitutions' = DictUpdate(substitutions, Strs(r.substitutions))
          /\ order' = DictUpdateOrder(order, SortedKeys(DOMAIN r.substitutions))
    /\ events' = Append(events, "read_overrides")
    /\ config_state' = "Configuring"
    /\ setuppc' = "flatten"
    /\ UNCHANGED <<args, ovpc, substitutions0, closures0, closures, calls, pos,
                   result, error, subpc, cacheVars, attrs, cmVars>>

\* a setup() that swallows what flatten raised and goes on to write the cache
SetupFlattenSwallowingErrors ==
    /\ setuppc = "flatten"
    /\ LET r == flatten(EngineState, order, 1)
       IN /\ substitutions' = r.st.tbl
          /\ error' = r.err
          /\ setuppc' = "write_cache"
    /\ events' = Append(events, "flatten")
    /\ UNCHANGED <<ovVars, substitutions0, closures0, order, closures, calls, pos,
                   result, subpc, cacheVars, attrs, config_state, cmVars>>

\* line 345: flatten(substitutions)
SetupFlatten ==
    /\ setuppc = "flatten"
    /\ LET r == flatten(EngineState, order, 1)
       IN /\ substitutions' = r.st.tbl
          /\ error' = r.err
          /\ setuppc' = IF r.err.kind # "none" THEN "raised" ELSE "write_cache"
    /\ events' = Append(events, "flatten")
    /\ UNCHANGED <<ovVars, substitutions0, closures0, order, closures, calls, pos,
                   result, subpc, cacheVars, attrs, config_state, cmVars>>

\* line 346: write_cache(cache_filename, substitutions)
SetupWriteCache ==
    /\ setuppc = "write_cache"
    /\ cache_file' = [exists |-> TRUE, text |-> write_cache(Texts(substitutions))]
    /\ events' = Append(events, "write_cache")
    /\ config_state' = "Configured"
    /\ setuppc' = "attrs"
    /\ UNCHANGED <<ovVars, subVars, cache_table, parsed, cachepc, attrs, cmVars>>

\* line 348: substitutions.update(parse_cache(cache_filename))
SetupLoadCache ==
    /\ setuppc = "load_cache"
    /\ LET r == parse_cache(cache_file)
       IN IF r.ok
          THEN /\ substitutions' = DictUpdate(substitutions, Strs(r.substitutions))
               /\ order' = DictUpdateOrder(order, SortedKeys(DOMAIN r.substitutions))
               /\ config_state' = "Configured"
               /\ setuppc' = "attrs"
               /\ UNCHANGED error
          ELSE /\ error' = [kind |-> "ConfigureError", chain |-> <<>>]
               /\ setuppc' = "raised"
               /\ UNCHANGED <<substitutions, order, config_state, cmVars>>
    /\ events' = Append(events, "load_cache")
    /\ UNCHANGED <<ovVars, substitutions0, closures0, closures, calls, pos,
                   result, subpc, cacheVars, attrs, cmVars>>

\* lines 350-352: the attributes are substituted and the table is handed on
SetupSubstituteAttrs ==
    /\ setuppc = "attrs"
    /\ LET r == substitute(Str(attrs.description), EngineState)
       IN /\ substitutions' = r.st.tbl
          /\ error' = r.err
          /\ result' = [name |-> <<>>, val |-> r.val]
          /\ setuppc' = IF r.err.kind # "none" THEN "raised" ELSE "setuptools"
    /\ events' = Append(events, "substitute_attrs")
    /\ UNCHANGED <<ovVars, substitutions0, closures0, order, closures, calls, pos,
                   subpc, cacheVars, attrs, config_state, cmVars>>

\* line 353: setuptools.setup(script_name, script_args, **attrs)
SetupHandOver ==
    /\ setuppc = "setuptools"
    /\ setuppc' = "done"
    /\ UNCHANGED <<ovVars, subVars, cacheVars, attrs, events, config_state, cmVars>>

SetupNext ==
    \/ SetupBegin \/ SetupReadOverrides \/ SetupFlatten \/ SetupWriteCache
    \/ SetupLoadCache \/ SetupSubstituteAttrs \/ SetupHandOver

SpecSetup == SetupInit /\ [][SetupNext]_vars

CmInit ==
    /\ OvIdle /\ SubIdle /\ CacheIdle /\ SetupIdle
    /\ constants_module \in SeqsUpTo(ModuleChars, MaxModuleLen)
    /\ \E D \in SUBSET PackageDirKeys : package_dir = [k \in D |-> DirectoryOf(k)]
    /\ package = <<>> /\ prefix = <<>> /\ gen = "none" /\ directory = None
    /\ yields = 0
    /\ cmpc = "validate"

\* validate_constants_module, called when the distribution reads its keywords
ValidateConstantsModule ==
    /\ cmpc = "validate"
    /\ cmpc' = IF validate_constants_module(constants_module)
               THEN "DistutilsSetupError" ELSE "run"
    /\ UNCHANGED <<constants_module, package_dir, package, prefix, gen,
                   directory, yields, ovVars, subVars, cacheVars, setupVars>>

\* configure.run, lines 224-226: a non-empty constants_module is partitioned
\* and the generator prefixes(package) is created
RunConstantsModule ==
    /\ cmpc = "run"
    /\ IF constants_module = <<>>
       THEN cmpc' = "done" /\ UNCHANGED <<package, gen>>
       ELSE /\ package' = RPartitionHead(constants_module)
            /\ gen' = "created"
            /\ cmpc' = "for"
    /\ UNCHANGED <<constants_module, package_dir, prefix, directory, yields,
                   ovVars, subVars, cacheVars, setupVars>>

\* the for loop asks prefixes() for its first value: yield package
YieldPackage ==
    /\ cmpc = "for" /\ gen = "created" /\ yields < MaxYields
    /\ gen' = "yielded_package"
    /\ prefix' = package
    /\ yields' = yields + 1
    /\ directory' = DictGet(package_dir, package)
    /\ cmpc' = IF directory'.none THEN "for" ELSE "after_for"
    /\ UNCHANGED <<constants_module, package_dir, package,
                   ovVars, subVars, cacheVars, setupVars>>

\* the for loop asks for the next value and the while loop of prefixes()
\* goes round once more: package.rpartition('.') and yield prefix
YieldPrefix ==
    /\ cmpc = "for" /\ gen \in {"yielded_package", "yielded_prefix"}
    /\ yields < MaxYields
    /\ prefix # <<>>
    /\ prefix' = RPartitionHead(package)
    /\ gen' = "yielded_prefix"
    /\ yields' = yields + 1
    /\ directory' = DictGet(package_dir, prefix')
    /\ cmpc' = IF directory'.none THEN "for" ELSE "after_for"
    /\ UNCHANGED <<constants_module, package_dir, package,
                   ovVars, subVars, cacheVars, setupVars>>

\* the while loop of prefixes() ends: the generator is exhausted
PrefixesExhausted ==
    /\ cmpc = "for" /\ gen \in {"yielded_package", "yielded_prefix"}
    /\ prefix = <<>>
    /\ gen' = "exhausted"
    /\ cmpc' = "after_for"
    /\ UNCHANGED <<constants_module, package_dir, package, prefix, directory,
                   yields, ovVars, subVars, cacheVars, setupVars>>

\* configure.run, lines 230-231: the current directory when none was found
DirectoryChosen ==
    /\ cmpc = "after_for"
    /\ directory' = IF directory.none THEN Some(curdir) ELSE directory
    /\ cmpc' = "done"
    /\ UNCHANGED <<constants_module, package_dir, package, prefix, gen, yields,
                   ovVars, subVars, cacheVars, setupVars>>

CmNext ==
    \/ ValidateConstantsModule \/ RunConstantsModule \/ YieldPackage
    \/ YieldPrefix \/ PrefixesExhausted \/ DirectoryChosen

SpecConstants == CmInit /\ [][CmNext]_vars

-----------------------------------------------------------------------------
(* Vocabulary of the properties *)

\* the names of the named references substitution_pattern finds in s, in the
\* order of the scan from 0-based offset i
RECURSIVE NamedRefs(_, _)
NamedRefs(s, i) ==
    IF i >= Len(s)
    THEN <<>>
    ELSE LET m == MatchAt(s, i)
         IN IF m.kind = "none" THEN NamedRefs(s, i + 1)
            ELSE IF m.kind = "escaped" THEN NamedRefs(s, m.end)
            ELSE <<m.name>> \o NamedRefs(s, m.end)

\* the characters of s outside its named references, from 0-based offset i
RECURSIVE OutsideNamedRefs(_, _)
OutsideNamedRefs(s, i) ==
    IF i >= Len(s)
    THEN <<>>
    ELSE LET m == MatchAt(s, i)
         IN IF m.kind = "named" THEN OutsideNamedRefs(s, m.end)
            ELSE IF m.kind = "escaped" THEN <<"@", "@">> \o OutsideNamedRefs(s, m.end)
            ELSE <<s[i + 1]>> \o OutsideNamedRefs(s, i + 1)

\* s contains a reference to name
RefersTo(s, name) == InChain(name, NamedRefs(s, 0))
\* the first named reference of s is to name
FirstRefersTo(s, name) ==
    LET refs == NamedRefs(s, 0) IN refs # <<>> /\ refs[1] = name
\* s contains a well-formed placeholder: an @identifier@ or an @@ match
HasPlaceholder(s) == \E i \in 0..(Len(s) - 1) : MatchAt(s, i).kind # "none"

IsText(tbl, n) == n \in DOMAIN tbl /\ tbl[n].kind = "str"

SubstituteReturned == subpc \in {"substituted", "substitute_raised"}
FlattenRunning == subpc \in {"flatten", "flattened", "flatten_raised"}

-----------------------------------------------------------------------------
(* C1: parse_commandline_substitutions *)

\* 1-based positions of the arguments captured as overrides: the name=value
\* arguments after the first 'configure', up to the first argument that is
\* neither an override nor a flag
CapturedPositions(a) ==
    LET start == ArgsIndex(a) + 1
    IN {i \in (start + 1)..Len(a) :
           /\ ConfigMatch(a[i]).ok
           /\ \A j \in (start + 1)..(i - 1) : ConfigMatch(a[j]).ok \/ StartsWithDash(a[j])}

RECURSIVE WithoutPositions(_, _, _)
WithoutPositions(a, drop, i) ==
    IF i > Len(a) THEN <<>>
    ELSE (IF i \in drop THEN <<>> ELSE <<a[i]>>) \o WithoutPositions(a, drop, i + 1)

\* C1: for every argument list that contains 'configure', the pass-through
\* list returned by parse_commandline_substitutions is the input list with the
\* captured name=value overrides removed, every other argument once and in its
\* original order; [setup.py, configure, FOO=bar, --quiet, build] gives
\* [setup.py, configure, --quiet, build] and {FOO: bar}.
C1_PassThroughIsArgsWithoutOverrides ==
    ovpc = "done" =>
        /\ script_args = WithoutPositions(args, CapturedPositions(args), 1)
        /\ args = <<TokSetupPy, TokConfigure, TokFooBar, TokQuiet, TokBuild>> =>
              /\ script_args = <<TokSetupPy, TokConfigure, TokQuiet, TokBuild>>
              /\ cli_substitutions = DictSet(EmptyDict, <<"F", "O", "O">>, <<"b", "a", "r">>)

-----------------------------------------------------------------------------
(* C2: mutual references *)

\* C2 as stated: whenever T[A] contains a reference to B and T[B] contains a
\* reference to A, substitute(T[A], T) fails with the cycle error and the
\* reported chain contains both A and B.
C2_MutualReferenceRaisesCycle ==
    \A a, b \in Names :
        ( /\ SubstituteReturned /\ result.name = a
          /\ IsText(substitutions0, a) /\ IsText(substitutions0, b)
          /\ RefersTo(substitutions0[a].s, b)
          /\ RefersTo(substitutions0[b].s, a) )
        => /\ error.kind = "cycle"
           /\ InChain(a, error.chain) /\ InChain(b, error.chain)

\* C2 as amended: when the first named reference of T[A] is to B and the
\* first named reference of T[B] is to A, substitute(T[A], T) fails with the
\* cycle error and the chain is B->A->B (A->A when A and B are the same name).
C2_FirstReferencesRaiseCycle ==
    \A a, b \in Names :
        ( /\ SubstituteReturned /\ result.name = a
          /\ IsText(substitutions0, a) /\ IsText(substitutions0, b)
          /\ FirstRefersTo(substitutions0[a].s, b)
          /\ FirstRefersTo(substitutions0[b].s, a) )
        => /\ subpc = "substitute_raised"
           /\ error.kind = "cycle"
           /\ error.chain = IF a = b THEN <<a, a>> ELSE <<b, a, b>>

\* the cycle A -> B -> A was reported by substitute(T[A], T)
C2_Witness ==
    /\ subpc = "substitute_raised" /\ result.name = NameA
    /\ IsText(substitutions0, NameA) /\ IsText(substitutions0, NameB)
    /\ FirstRefersTo(substitutions0[NameA].s, NameB)
    /\ FirstRefersTo(substitutions0[NameB].s, NameA)
    /\ error = CycleDetected(<<NameB, NameA, NameB>>)

-----------------------------------------------------------------------------
(* C3: order independence of flatten *)

\* C3: for every table of Text values, whenever flatten succeeds in the order
\* taken and in another order, both leave the same table.
C3_FlattenOrderIndependent ==
    ( /\ subpc = "flattened"
      /\ \A n \in DOMAIN substitutions0 : IsText(substitutions0, n) )
    => \A o \in Permutations2(DOMAIN substitutions0) :
          LET other == flatten([tbl |-> substitutions0, clo |-> closures0,
                                calls |-> [n \in DOMAIN calls |-> 0], depth |-> 0], o, 1)
          IN other.err.kind = "none" => other.st.tbl = substitutions

-----------------------------------------------------------------------------
(* C4: what flatten leaves in the table *)

DelimitersOnlyInReferences ==
    \A n \in DOMAIN substitutions0 :
        IF substitutions0[n].kind = "str"
        THEN ~HasDelimiter(OutsideNamedRefs(substitutions0[n].s, 0))
        ELSE ~HasDelimiter(closures0[n].out.s)

-----------------------------------------------------------------------------
(* C5, C6: deferred computations *)

\* C5: within one flatten call a deferred computation is called at most
\* once; once it has been called and flatten goes on, the table holds its
\* result in its place.
C5_DeferredCalledAtMostOnce ==
    FlattenRunning =>
        \A n \in DOMAIN calls :
            /\ calls[n] <= 1
            /\ (calls[n] >= 1 /\ error.kind = "none") => substitutions[n].kind = "str"

\* the first named reference of the args of the deferred computation under n
ArgsFirstRef(n) ==
    LET refs == NamedRefs(Join(closures0[n].args), 0)
    IN IF refs = <<>> THEN <<>> ELSE refs[1]

\* the deferred computation under n has an argument that leads back to n:
\* directly, or through the Text entry it refers to
ArgsLeadBackTo(n) ==
    /\ substitutions0[n].kind = "callable"
    /\ \/ ArgsFirstRef(n) = n
       \/ /\ IsText(substitutions0, ArgsFirstRef(n))
          /\ FirstRefersTo(substitutions0[ArgsFirstRef(n)].s, n)

\* C6: resolving a deferred computation whose arguments lead back to its own
\* name ends with the cycle error.
C6_DeferredCycleRaisesCycle ==
    \A n \in Names :
        (SubstituteReturned /\ result.name = n /\ ArgsLeadBackTo(n))
        => subpc = "substitute_raised" /\ error.kind = "cycle"

-----------------------------------------------------------------------------
(* C7: the cache round trip *)

CacheRead == cachepc \in {"parsed", "parse_raised"}

\* the key contains no '=', '#' or newline
PlainKey(k) == \A i \in 1..Len(k) : k[i] \notin {"=", "#", "\n"}
\* C7: write_cache followed by parse_cache gives back the table,
\* for every table of Text values whose keys hold no '=', '#' or newline.
C7_RoundTripAnyValue ==
    (CacheRead /\ \A k \in DOMAIN cache_table : PlainKey(k))
    => cachepc = "parsed" /\ parsed = cache_table

-----------------------------------------------------------------------------
(* C8: the order of the operations of setup() *)

\* the arguments hold a name=value override
OverrideArgsPresent(a) == \E i \in 1..Len(a) : ConfigMatch(a[i]).ok

SetupEnded == setuppc \in {"done", "raised"}
\* the operations on the table and the cache
TableEvents == SelectSeq(events, LAMBDA e : e # "substitute_attrs")

ConfigureEvents == <<"read_overrides", "flatten", "write_cache">>

\* C8 as stated: with override args present the overrides are read, the
\* table is flattened and the cache is persisted, in that order and the cache
\* only after flatten succeeded; with no override args the cache is loaded
\* and neither flatten nor write_cache happens; every invocation that
\* succeeds ends Configured.
C8_OverrideArgsSelectConfiguring ==
    /\ (SetupEnded /\ OverrideArgsPresent(args)) =>
          \/ TableEvents = ConfigureEvents
          \/ TableEvents = <<"read_overrides", "flatten">> /\ setuppc = "raised"
    /\ (SetupEnded /\ ~OverrideArgsPresent(args)) => TableEvents = <<"load_cache">>
    /\ setuppc = "write_cache" => error.kind = "none"
    /\ setuppc = "done" => config_state = "Configured"

\* C8 as amended: it is the 'configure' token that selects the branch, and
\* an invocation that asks for help does nothing of this.  Without a help
\* option: with 'configure' among the arguments the overrides are read, the
\* table is flattened and the cache is persisted, in that order and the cache
\* only after flatten succeeded; without it the cache is loaded and neither
\* flatten nor write_cache happens; an invocation that succeeds ends
\* Configured.  With a help option the table and the cache are left alone.
C8_ConfigureTokenSelectsConfiguring ==
    /\ (SetupEnded /\ ~HelpRequested(args) /\ HasConfigure(args)) =>
          \/ TableEvents = ConfigureEvents
          \/ /\ TableEvents = <<"read_overrides", "flatten">>
             /\ setuppc = "raised" /\ error.kind # "none"
    /\ (SetupEnded /\ ~HelpRequested(args) /\ ~HasConfigure(args)) =>
          TableEvents = <<"load_cache">>
    /\ setuppc = "write_cache" =>
          error.kind = "none" /\ events = <<"read_overrides", "flatten">>
    /\ (setuppc = "done" /\ ~HelpRequested(args)) => config_state = "Configured"
    /\ HelpRequested(args) => events = <<>> /\ config_state = "NotConfigured"

\* an invocation with 'configure' and an override went through Configuring
\* and ended Configured with the cache written
C8_Witness ==
    /\ setuppc = "done"
    /\ events = <<"read_overrides", "flatten", "write_cache", "substitute_attrs">>
    /\ config_state = "Configured"
    /\ cli_substitutions # EmptyDict
    /\ cache_file.exists /\ cache_file.text = write_cache(Texts(substitutions))

-----------------------------------------------------------------------------
(* C9, C10: the constants module *)

\* value is a dot-separated sequence of identifiers
IsDottedName(value) ==
    LET parts == SplitDots(value, <<>>)
    IN \A i \in 1..Len(parts) : isidentifier(parts[i])

\* the dotted prefixes of a package, longest first, ending with ''
RECURSIVE DottedPrefixes(_)
DottedPrefixes(pkg) ==
    IF pkg = <<>> THEN << <<>> >> ELSE <<pkg>> \o DottedPrefixes(RPartitionHead(pkg))

\* the directory of the longest dotted prefix package_dir knows, else os.curdir
RECURSIVE FirstKnown(_, _)
FirstKnown(ps, d) ==
    IF ps = <<>> THEN curdir
    ELSE IF Head(ps) \in DOMAIN d THEN d[Head(ps)] ELSE FirstKnown(Tail(ps), d)

\* C9: for every dotted module name and package_dir, the search over the
\* dotted prefixes of the package ends, no prefix being asked for twice, and
\* gives the directory of the longest prefix package_dir knows, or os.curdir.
C9_PrefixSearchEnds ==
    (IsDottedName(constants_module) /\ constants_module # <<>>) =>
        /\ yields <= Len(DottedPrefixes(package))
        /\ cmpc = "done" =>
              directory = Some(FirstKnown(DottedPrefixes(package), package_dir))

\* C10: validate_constants_module raises for every name that is not a
\* dot-separated sequence of identifiers, before configure.run writes
\* anything, and accepts every name that is.
C10_InvalidModuleNameRejected ==
    cmpc # "validate" =>
        (cmpc = "DistutilsSetupError" <=> ~IsDottedName(constants_module))

=============================================================================
